---- MODULE Spec2Model ----
(***************************************************************************)
(* A model of fireclass: dataclass documents persisted in Firestore.       *)
(*   fireclass/values_conversion.py  the value codec                       *)
(*   fireclass/document.py           Document, _DocumentQuery, the client  *)
(* A Python value is a record: t its runtime type, cls its class when an    *)
(* enumeration member, s its text (a str's characters, a member's name, a  *)
(* datetime's tzinfo), n its number (an int, a bool as 0 or 1, a           *)
(* datetime's instant), items a list's elements, entries a dict's          *)
(* key/value pairs. A declared field type is a record [k |-> <kind>, ...]. *)
(* A call's outcome is Ok(v) (it returned v) or Raise(e) (it raised e).    *)
(***************************************************************************)
EXTENDS Integers, Sequences, FiniteSets, TLC

(***************************************************************************)
(* Python values                                                           *)
(***************************************************************************)
None == "None"

Value(t, cls, s, n, items, entries) ==
  [t |-> t, cls |-> cls, s |-> s, n |-> n, items |-> items, entries |-> entries]

PyNone == Value("NoneType", "", "", 0, << >>, << >>)
PyStr(s) == Value("str", "", s, 0, << >>, << >>)
PyInt(n) == Value("int", "", "", n, << >>, << >>)
PyBool(b) == Value("bool", "", "", IF b THEN 1 ELSE 0, << >>, << >>)
\* a datetime at instant n; tzinfo is "" when the datetime is timezone-naive
PyDatetime(n, tzinfo) == Value("datetime", "", tzinfo, n, << >>, << >>)
PyEnum(cls, name) == Value("Enum", cls, name, 0, << >>, << >>)
PyList(items) == Value("list", "", "", 0, items, << >>)
\* entries: a sequence of [key |-> k, value |-> v]
PyDict(entries) == Value("dict", "", "", 0, << >>, entries)

Ok(v) == [ok |-> TRUE, v |-> v, err |-> None]
Raise(e) == [ok |-> FALSE, v |-> PyNone, err |-> e]

(***************************************************************************)
(* Declared field types (dataclasses.Field.type)                           *)
(***************************************************************************)
TStr == [k |-> "str"]
TInt == [k |-> "int"]
TBool == [k |-> "bool"]
TDatetime == [k |-> "datetime"]
TEnum(cls) == [k |-> "Enum", cls |-> cls]
\* Optional[T] is Union[T, None]: __origin__ == Union, __args__ == (T, NoneType)
TOptional(T) == [k |-> "Union", arg |-> T]
TList(T) == [k |-> "List", arg |-> T]
TDict(T) == [k |-> "Dict", arg |-> T]

\* The enumerations: the members of each and the scalar behind each member.
\* UserMembershipLevelEnum is integer-backed; PlanEnum is string-backed.
EnumValues ==
  [UserMembershipLevelEnum |->
     [NONE |-> PyInt(1), INTERMEDIATE |-> PyInt(2), FULL |-> PyInt(3)],
   PlanEnum |->
     [FREE |-> PyStr("free"), PAID |-> PyStr("paid")]]

EnumClasses == DOMAIN EnumValues

\* enum_cls(field_value): the member whose value is field_value, else ValueError
EnumCall(cls, scalar) ==
  LET hits == {m \in DOMAIN EnumValues[cls] : EnumValues[cls][m] = scalar}
  IN  IF hits = {} THEN Raise("ValueError")
      ELSE Ok(PyEnum(cls, CHOOSE m \in hits : TRUE))

\* type(value), as a declared type would be written
TypeOf(value) ==
  CASE value.t = "str" -> TStr
    [] value.t = "int" -> TInt
    [] value.t = "bool" -> TBool
    [] value.t = "datetime" -> TDatetime
    [] value.t = "Enum" -> TEnum(value.cls)
    [] OTHER -> [k |-> value.t]

\* issubclass(T, Enum); raises TypeError when T is a typing construct and not a class
IsClass(T) == T.k \in {"str", "int", "bool", "datetime", "Enum"}
IsEnumClass(T) == T.k = "Enum"

(***************************************************************************)
(* values_conversion.py: convert_value_to_firestore                        *)
(***************************************************************************)
RECURSIVE convert_value_to_firestore(_)
convert_value_to_firestore(field_value) ==
  CASE field_value.t = "dict" ->
         PyDict([i \in DOMAIN field_value.entries |->
                   [key |-> field_value.entries[i].key,
                    value |-> convert_value_to_firestore(field_value.entries[i].value)]])
    [] field_value.t = "list" ->
         PyList([i \in DOMAIN field_value.items |->
                   convert_value_to_firestore(field_value.items[i])])
    [] field_value.t = "Enum" -> EnumValues[field_value.cls][field_value.s]
    [] OTHER -> field_value

(***************************************************************************)
(* values_conversion.py: convert_value_from_firestore                      *)
(***************************************************************************)
ReceivedAValue == "TypeError: Received a value"

_bool(field_value, field_type) ==
  IF field_type \in {TBool, TOptional(TBool)}
  THEN Ok(field_value)
  ELSE Raise(ReceivedAValue)

_str_to_enum(field_value, field_type) ==
  IF field_type = TStr THEN Ok(field_value)
  ELSE IF field_type = TOptional(TStr) THEN Ok(field_value)
  ELSE IF ~IsClass(field_type) THEN Raise("TypeError: issubclass() arg 1 must be a class")
  ELSE IF IsEnumClass(field_type) THEN EnumCall(field_type.cls, field_value)
  ELSE Raise(ReceivedAValue)

_int_to_enum(field_value, field_type) ==
  IF field_type = TInt THEN Ok(field_value)
  ELSE IF field_type.k = "Union"
  THEN IF field_type.arg = TInt THEN Ok(field_value)
       ELSE IF ~IsClass(field_type.arg)
       THEN Raise("TypeError: issubclass() arg 1 must be a class")
       ELSE IF IsEnumClass(field_type.arg)
       THEN EnumCall(field_type.arg.cls, field_value)
       ELSE Raise(ReceivedAValue)
  ELSE IF ~IsClass(field_type) THEN Raise("TypeError: issubclass() arg 1 must be a class")
  ELSE IF IsEnumClass(field_type) THEN EnumCall(field_type.cls, field_value)
  ELSE Raise(ReceivedAValue)

\* a dispatch by isinstance, under which a bool, an int in Python, is taken
\* for an integer
convert_value_from_firestore_bool_as_int(field_value, field_type) ==
  CASE field_value.t \in {"bool", "int"} -> _int_to_enum(field_value, field_type)
    [] field_value.t = "str" -> _str_to_enum(field_value, field_type)
    [] OTHER -> Ok(field_value)

\* singledispatch on the raw value's runtime type; bool is registered apart from int
convert_value_from_firestore(field_value, field_type) ==
  CASE field_value.t = "bool" -> _bool(field_value, field_type)
    [] field_value.t = "str" -> _str_to_enum(field_value, field_type)
    [] field_value.t = "int" -> _int_to_enum(field_value, field_type)
    [] OTHER -> Ok(field_value)

(***************************************************************************)
(* The record types (dataclasses deriving from Document) and their fields  *)
(***************************************************************************)
ClassFields ==
  [User |->
     [email_address |-> TStr,
      family_members_count |-> TInt,
      last_login_date |-> TDatetime,
      membership |-> TEnum("UserMembershipLevelEnum"),
      is_active |-> TBool],
   UserWithOptionalTypes |->
     [email_address |-> TOptional(TStr),
      family_members_count |-> TOptional(TInt),
      last_login_date |-> TOptional(TDatetime),
      membership |-> TOptional(TEnum("UserMembershipLevelEnum")),
      is_active |-> TOptional(TBool)],
   Account |->
     [email_address |-> TStr,
      plan |-> TOptional(TEnum("PlanEnum"))]]

Classes == DOMAIN ClassFields

\* dataclasses.fields(cls): the declared field names
FieldNames(cls) == DOMAIN ClassFields[cls]

\* datetime.utcnow().replace(tzinfo=timezone.utc), and datetime.utcnow()
Aware == PyDatetime(1, "UTC")
Naive == PyDatetime(1, "")

UserDefaults ==
  [email_address |-> PyStr("test@test.com"),
   family_members_count |-> PyInt(5),
   last_login_date |-> Aware,
   membership |-> PyEnum("UserMembershipLevelEnum", "FULL"),
   is_active |-> PyBool(TRUE)]

AllNone ==
  [email_address |-> PyNone,
   family_members_count |-> PyNone,
   last_login_date |-> PyNone,
   membership |-> PyNone,
   is_active |-> PyNone]

\* The field values an application constructs a record with: cls(), and
\* cls(...) with other values given.
Plain(cls) ==
  CASE cls = "User" -> UserDefaults
    [] cls = "UserWithOptionalTypes" -> UserDefaults
    [] cls = "Account" ->
         [email_address |-> PyStr("test@test.com"),
          plan |-> PyEnum("PlanEnum", "PAID")]

Other(cls) ==
  CASE cls = "User" -> [UserDefaults EXCEPT !.last_login_date = Naive]
    [] cls = "UserWithOptionalTypes" -> AllNone
    [] cls = "Account" ->
         [email_address |-> PyStr("test@test.com"), plan |-> PyNone]

Constructed(cls) == {Plain(cls), Other(cls)}

\* The attribute assignments an application makes on an instance.
Assigned(cls) ==
  CASE cls = "User" ->
         {<<"email_address", PyStr("456@7.com")>>, <<"is_active", PyBool(FALSE)>>}
    [] cls = "UserWithOptionalTypes" ->
         {<<"is_active", PyNone>>}
    [] cls = "Account" ->
         {<<"email_address", PyStr("456@7.com")>>}

\* The document ids in play, given by the caller or generated by the store.
DocumentIds == {"123", "456"}

(***************************************************************************)
(* State                                                                   *)
(***************************************************************************)
VARIABLES
  _firestore_client,  \* the module-level client: None or "db"
  document_cls,       \* the record type the calls are made on
  store,              \* the collection named after document_cls: id -> stored mapping
  self,               \* the instance the application holds: [fields, _id]
  queries,            \* the _DocumentQuery objects built so far
  streamed,           \* the records the last stream() yielded
  generator,          \* the generator the last Document.stream() call returned
  last,               \* the last call: its name, argument and outcome
  codec               \* the value under conversion (codec specification)

vars == <<_firestore_client, document_cls, store, self, queries, streamed, generator,
          last, codec>>

Idle == [pc |-> "idle"]

\* arg is the tuple of the call's arguments, err the exception raised or None
Called(op, arg, err) == [op |-> op, arg |-> arg, err |-> err]

FirestoreClientNotConfigured == "FirestoreClientNotConfigured"
DocumentNotFound == "DocumentNotFound"
DocumentNotCreatedInDatabase == "DocumentNotCreatedInDatabase"
DocumentAlreadyCreatedInDatabase == "DocumentAlreadyCreatedInDatabase"
\* raised by the store: create at an id that holds a document, update at one that does not
Conflict == "google.api_core.exceptions.Conflict"
NotFound == "google.api_core.exceptions.NotFound"

\* Document.__post_init__
NewDocument(fields) == [fields |-> fields, _id |-> None]

\* Document.id
id(document) == document._id

\* a lookup that hands out a client whether or not one was installed
ConfiguredAlways == TRUE

\* Document._collection / _get_firestore_client: is a collection to be had?
Configured == _firestore_client # None

\* collection.document(document_id): the ids the reference may carry; the store
\* generates one when document_id is None
document_ref_ids(document_id) ==
  IF document_id = None THEN DocumentIds ELSE {document_id}

\* convert_value_to_firestore(dataclasses.asdict(self))
encoded_dict(document) ==
  [f \in DOMAIN document.fields |-> convert_value_to_firestore(document.fields[f])]

Put(st, document_id, mapping) ==
  [d \in DOMAIN st \cup {document_id} |->
     IF d = document_id THEN mapping ELSE st[d]]

\* document_ref.update(mapping): the given fields overwrite the stored ones
Merge(old, mapping) ==
  [f \in DOMAIN old \cup DOMAIN mapping |->
     IF f \in DOMAIN mapping THEN mapping[f] ELSE old[f]]

Remove(st, document_id) == [d \in DOMAIN st \ {document_id} |-> st[d]]

TypeOK ==
  /\ _firestore_client \in {None, "db"}
  /\ document_cls \in Classes
  /\ DOMAIN store \subseteq DocumentIds
  /\ self._id \in DocumentIds \cup {None}
  /\ DOMAIN self.fields = FieldNames(document_cls)

(***************************************************************************)
(* document.py: the client                                                 *)
(***************************************************************************)
initialize_with_firestore_client ==
  /\ _firestore_client' = "db"
  /\ last' = Called("initialize_with_firestore_client", << >>, None)
  /\ UNCHANGED <<document_cls, store, self, queries, streamed, generator, codec>>

_discard_firestore_client ==
  /\ _firestore_client' = None
  /\ last' = Called("_discard_firestore_client", << >>, None)
  /\ UNCHANGED <<document_cls, store, self, queries, streamed, generator, codec>>

(***************************************************************************)
(* The application: constructing an instance, assigning an attribute       *)
(***************************************************************************)
Construct(fields) ==
  /\ self' = NewDocument(fields)
  /\ last' = Called("__init__", << >>, None)
  /\ UNCHANGED <<_firestore_client, document_cls, store, queries, streamed, generator, codec>>

SetAttr(name, value) ==
  /\ self.fields[name] # value
  /\ self' = [self EXCEPT !.fields[name] = value]
  /\ last' = Called("__setattr__", << >>, None)
  /\ UNCHANGED <<_firestore_client, document_cls, store, queries, streamed, generator, codec>>

(***************************************************************************)
(* document.py: Document.create, update, delete                            *)
(***************************************************************************)
\* a create that has lost its guard
already_created_never(document) == FALSE

\* create's guard: self.id is not None
already_created(document) == id(document) # None

\* update's and delete's guard: self.id is None
not_created(document) == id(document) = None

\* a create that stores document_ref.id in the instance before the write
create_id_first(document_id) ==
  /\ UNCHANGED <<_firestore_client, document_cls, queries, streamed, generator, codec>>
  /\ IF already_created(self)
     THEN /\ last' = Called("create", <<document_id>>, DocumentAlreadyCreatedInDatabase)
          /\ UNCHANGED <<store, self>>
     ELSE IF ~Configured
     THEN /\ last' = Called("create", <<document_id>>, FirestoreClientNotConfigured)
          /\ UNCHANGED <<store, self>>
     ELSE \E ref_id \in document_ref_ids(document_id) :
            /\ self' = [self EXCEPT !._id = ref_id]
            /\ IF ref_id \in DOMAIN store
               THEN /\ last' = Called("create", <<document_id>>, Conflict)
                    /\ UNCHANGED store
               ELSE /\ store' = Put(store, ref_id, encoded_dict(self))
                    /\ last' = Called("create", <<document_id>>, None)

create(document_id) ==
  /\ UNCHANGED <<_firestore_client, document_cls, queries, streamed, generator, codec>>
  /\ IF already_created(self)
     THEN /\ last' = Called("create", <<document_id>>, DocumentAlreadyCreatedInDatabase)
          /\ UNCHANGED <<store, self>>
     ELSE IF ~Configured
     THEN /\ last' = Called("create", <<document_id>>, FirestoreClientNotConfigured)
          /\ UNCHANGED <<store, self>>
     ELSE \E ref_id \in document_ref_ids(document_id) :
            IF ref_id \in DOMAIN store
            THEN /\ last' = Called("create", <<document_id>>, Conflict)
                 /\ UNCHANGED <<store, self>>
            ELSE /\ store' = Put(store, ref_id, encoded_dict(self))
                 /\ self' = [self EXCEPT !._id = ref_id]
                 /\ last' = Called("create", <<document_id>>, None)

\* an update that asks the collection for a reference without naming the id
update_ref_ids_auto(document) == document_ref_ids(None)

\* update's reference: self._collection().document(self.id)
update_ref_ids(document) == document_ref_ids(id(document))

update ==
  /\ UNCHANGED <<_firestore_client, document_cls, queries, streamed, generator, codec>>
  /\ IF not_created(self)
     THEN /\ last' = Called("update", << >>, DocumentNotCreatedInDatabase)
          /\ UNCHANGED <<store, self>>
     ELSE IF ~Configured
     THEN /\ last' = Called("update", << >>, FirestoreClientNotConfigured)
          /\ UNCHANGED <<store, self>>
     ELSE \E ref_id \in update_ref_ids(self) :
            IF ref_id \notin DOMAIN store
            THEN /\ last' = Called("update", << >>, NotFound)
                 /\ UNCHANGED <<store, self>>
            ELSE /\ store' = Put(store, ref_id, Merge(store[ref_id], encoded_dict(self)))
                 /\ self' = [self EXCEPT !._id = ref_id]
                 /\ last' = Called("update", << >>, None)

\* Document.delete_document's effect on the store
delete_document_in(st, document_id) == Remove(st, document_id)

delete ==
  /\ UNCHANGED <<_firestore_client, document_cls, self, queries, streamed, generator, codec>>
  /\ IF not_created(self)
     THEN /\ last' = Called("delete", << >>, DocumentNotCreatedInDatabase)
          /\ UNCHANGED store
     ELSE IF ~Configured
     THEN /\ last' = Called("delete", << >>, FirestoreClientNotConfigured)
          /\ UNCHANGED store
     ELSE /\ store' = delete_document_in(store, id(self))
          /\ last' = Called("delete", << >>, None)

(***************************************************************************)
(* document.py: Document._find_field, _from_firestore_document,            *)
(* get_document, delete_document                                           *)
(***************************************************************************)
FieldDoesNotExist == "TypeError: The supplied field_path does not exist"

_find_field(cls, field_name) ==
  IF field_name \in FieldNames(cls)
  THEN Ok([name |-> field_name, type |-> ClassFields[cls][field_name]])
  ELSE Raise(FieldDoesNotExist)

\* the decoding of one stored field: an outcome
DecodeField(cls, field_name, value) ==
  LET field_description == _find_field(cls, field_name)
  IN  IF ~field_description.ok THEN field_description
      ELSE convert_value_from_firestore(value, field_description.v.type)

\* cls(**decoded_dict) with document._id = firestore_document.id; the first
\* field that does not decode raises instead
_from_firestore_document(cls, snapshot_id, mapping) ==
  LET failed == {f \in DOMAIN mapping : ~DecodeField(cls, f, mapping[f]).ok}
  IN  IF failed # {}
      THEN Raise(DecodeField(cls, CHOOSE f \in failed : TRUE,
                             mapping[CHOOSE f \in failed : TRUE]).err)
      ELSE Ok([fields |-> [f \in DOMAIN mapping |-> DecodeField(cls, f, mapping[f]).v],
               _id |-> snapshot_id])

\* a get_document that does not look at the snapshot's exists flag
get_document_unchecked(st, cls, document_id) ==
  IF document_id \notin DOMAIN st
  THEN Raise("AttributeError")
  ELSE _from_firestore_document(cls, document_id, st[document_id])

\* the outcome of cls.get_document(document_id) with a client configured
get_document_from(st, cls, document_id) ==
  IF document_id \notin DOMAIN st
  THEN Raise(DocumentNotFound)
  ELSE _from_firestore_document(cls, document_id, st[document_id])

\* self = cls.get_document(document_id)
get_document(document_id) ==
  /\ UNCHANGED <<_firestore_client, document_cls, store, queries, streamed, generator, codec>>
  /\ IF ~Configured
     THEN /\ last' = Called("get_document", <<document_id>>, FirestoreClientNotConfigured)
          /\ UNCHANGED self
     ELSE LET got == get_document_from(store, document_cls, document_id)
          IN  IF got.ok
              THEN /\ self' = got.v
                   /\ last' = Called("get_document", <<document_id>>, None)
              ELSE /\ last' = Called("get_document", <<document_id>>, got.err)
                   /\ UNCHANGED self

delete_document(document_id) ==
  /\ UNCHANGED <<_firestore_client, document_cls, self, queries, streamed, generator, codec>>
  /\ IF ~Configured
     THEN /\ last' = Called("delete_document", <<document_id>>, FirestoreClientNotConfigured)
          /\ UNCHANGED store
     ELSE /\ store' = delete_document_in(store, document_id)
          /\ last' = Called("delete_document", <<document_id>>, None)

(***************************************************************************)
(* The record specification: one record type, its collection, one instance *)
(***************************************************************************)
Init ==
  /\ _firestore_client = None
  /\ document_cls \in Classes
  /\ store = << >>
  /\ self \in {NewDocument(fields) : fields \in Constructed(document_cls)}
  /\ queries = << >>
  /\ streamed = {}
  /\ generator = None
  /\ last = Called("__init__", << >>, None)
  /\ codec = Idle

Next ==
  \/ initialize_with_firestore_client
  \/ _discard_firestore_client
  \/ \E fields \in Constructed(document_cls) : Construct(fields)
  \/ \E a \in Assigned(document_cls) : SetAttr(a[1], a[2])
  \/ \E document_id \in DocumentIds \cup {None} : create(document_id)
  \/ update
  \/ delete
  \/ \E document_id \in DocumentIds : get_document(document_id)
  \/ \E document_id \in DocumentIds : delete_document(document_id)

Spec == Init /\ [][Next]_vars

(***************************************************************************)
(* The store's queries (firestore_v1.Query): a query is a value, and where *)
(* and limit return a new one                                              *)
(***************************************************************************)
\* cls._collection(), seen as the query over the whole collection
collection_query == [filters |-> << >>, limit |-> PyNone]

firestore_where(firestore_query, field_path, op_string, value) ==
  [firestore_query EXCEPT !.filters = Append(@, <<field_path, op_string, value>>)]

firestore_limit(firestore_query, count) ==
  [firestore_query EXCEPT !.limit = PyInt(count)]

\* does a stored value satisfy <op_string> value?
Compare(op_string, stored, value) ==
  CASE op_string = "==" -> stored = value
    [] op_string = "array_contains" ->
         stored.t = "list" /\ \E i \in DOMAIN stored.items : stored.items[i] = value
    [] OTHER ->
         /\ stored.t = value.t
         /\ stored.t \in {"int", "datetime"}
         /\ CASE op_string = "<" -> stored.n < value.n
              [] op_string = "<=" -> stored.n <= value.n
              [] op_string = ">=" -> stored.n >= value.n
              [] op_string = ">" -> stored.n > value.n

\* the ids of the documents that satisfy every filter of the query
Matching(firestore_query, st) ==
  {d \in DOMAIN st :
     \A i \in DOMAIN firestore_query.filters :
       LET filter == firestore_query.filters[i]
       IN  /\ filter[1] \in DOMAIN st[d]
           /\ Compare(filter[2], st[d][filter[1]], filter[3])}

\* firestore_query.stream(): the sets of snapshots it may yield; the store
\* chooses which documents fill a limit
firestore_stream(firestore_query, st) ==
  LET matching == Matching(firestore_query, st)
  IN  IF firestore_query.limit = PyNone
      THEN {matching}
      ELSE {some \in SUBSET matching :
              \/ Cardinality(some) = firestore_query.limit.n
              \/ some = matching /\ Cardinality(matching) < firestore_query.limit.n}

(***************************************************************************)
(* document.py: Document.where, _DocumentQuery                             *)
(***************************************************************************)
ValueHasType == "TypeError: The supplied value has type"

\* _DocumentQuery.__init__
_DocumentQuery(cls, firestore_query) ==
  [_document_cls |-> cls, _firestore_query |-> firestore_query]

\* Document.where up to final_value: the checks of the field and of the
\* value's type, then the encoding
where_final_value(cls, field_path, value) ==
  LET corresponding_field == _find_field(cls, field_path)
  IN  IF ~corresponding_field.ok THEN corresponding_field
      ELSE LET type == corresponding_field.v.type
               should_raise_type_error ==
                 IF type.k = "Union"
                 THEN type.arg # TypeOf(value) /\ value # PyNone
                 ELSE type # TypeOf(value)
           IN  IF should_raise_type_error THEN Raise(ValueHasType)
               ELSE Ok(convert_value_to_firestore(value))

\* the most _DocumentQuery objects built in one run
MaxQueries == 3

\* cls.where(field_path, op_string, value)
where(field_path, op_string, value) ==
  /\ Len(queries) < MaxQueries
  /\ UNCHANGED <<_firestore_client, document_cls, store, self, streamed, generator, codec>>
  /\ LET final_value == where_final_value(document_cls, field_path, value)
         args == <<field_path, op_string, value>>
     IN  IF ~final_value.ok
         THEN /\ last' = Called("where", args, final_value.err)
              /\ UNCHANGED queries
         ELSE IF ~Configured
         THEN /\ last' = Called("where", args, FirestoreClientNotConfigured)
              /\ UNCHANGED queries
         ELSE /\ queries' =
                   Append(queries,
                          _DocumentQuery(document_cls,
                                         firestore_where(collection_query, field_path,
                                                         op_string, final_value.v)))
              /\ last' = Called("where", args, None)

\* queries[q].where(field_path, op_string, value)
query_where(q, field_path, op_string, value) ==
  /\ Len(queries) < MaxQueries
  /\ UNCHANGED <<_firestore_client, document_cls, store, self, streamed, generator, codec>>
  /\ queries' =
       Append(queries,
              _DocumentQuery(queries[q]._document_cls,
                             firestore_where(queries[q]._firestore_query, field_path,
                                             op_string, value)))
  /\ last' = Called("_DocumentQuery.where", <<field_path, op_string, value>>, None)

\* a limit that sets the limit on the receiver and returns the receiver
query_limit_in_place(q, count) ==
  /\ Len(queries) < MaxQueries
  /\ UNCHANGED <<_firestore_client, document_cls, store, self, streamed, generator, codec>>
  /\ queries' =
       [queries EXCEPT ![q]._firestore_query = firestore_limit(@, count)]
  /\ last' = Called("_DocumentQuery.limit", <<q, count>>, None)

\* queries[q].limit(count)
query_limit(q, count) ==
  /\ Len(queries) < MaxQueries
  /\ UNCHANGED <<_firestore_client, document_cls, store, self, streamed, generator, codec>>
  /\ queries' =
       Append(queries,
              _DocumentQuery(queries[q]._document_cls,
                             firestore_limit(queries[q]._firestore_query, count)))
  /\ last' = Called("_DocumentQuery.limit", <<q, count>>, None)

\* the outcome of decoding every snapshot of a set: the set of records, or
\* the error of a snapshot that does not decode
DecodeAll(cls, st, snapshots) ==
  LET failed == {d \in snapshots : ~_from_firestore_document(cls, d, st[d]).ok}
  IN  IF failed # {}
      THEN Raise(_from_firestore_document(cls, CHOOSE d \in failed : TRUE,
                                          st[CHOOSE d \in failed : TRUE]).err)
      ELSE [ok |-> TRUE,
            v |-> {_from_firestore_document(cls, d, st[d]).v : d \in snapshots},
            err |-> None]

\* list(queries[q].stream())
query_stream(q) ==
  /\ UNCHANGED <<_firestore_client, document_cls, store, self, queries, generator, codec>>
  /\ \E snapshots \in firestore_stream(queries[q]._firestore_query, store) :
       LET decoded == DecodeAll(queries[q]._document_cls, store, snapshots)
       IN  IF decoded.ok
           THEN /\ streamed' = decoded.v
                /\ last' = Called("_DocumentQuery.stream", <<q>>, None)
           ELSE /\ streamed' = {}
                /\ last' = Called("_DocumentQuery.stream", <<q>>, decoded.err)

\* The where() calls an application makes: field, operator, value.
WhereArgs(cls) ==
  CASE cls = "User" ->
         {<<"email_address", "==", PyStr("test@test.com")>>,
          <<"membership", "==", PyEnum("UserMembershipLevelEnum", "FULL")>>,
          <<"is_active", "==", PyStr("not a bool")>>,
          <<"wrong_field_name", "==", PyStr("123")>>}
    [] cls = "UserWithOptionalTypes" ->
         {<<"email_address", "==", PyNone>>,
          <<"membership", "==", PyEnum("UserMembershipLevelEnum", "FULL")>>,
          <<"is_active", "==", PyStr("not a bool")>>,
          <<"wrong_field_name", "==", PyStr("123")>>}
    [] cls = "Account" ->
         {<<"plan", "==", PyEnum("PlanEnum", "PAID")>>,
          <<"plan", "==", PyNone>>,
          <<"email_address", "==", PyNone>>,
          <<"wrong_field_name", "==", PyStr("123")>>}

\* The limit() counts an application asks for.
Counts == {1}

\* The collections the queries run against: empty, or what create leaves in
\* the store for instances as constructed, one at each id.
Stores(cls) ==
  {<< >>,
   [d \in DocumentIds |-> encoded_dict(NewDocument(Plain(cls)))],
   [d \in DocumentIds |->
      IF d = "123" THEN encoded_dict(NewDocument(Plain(cls)))
      ELSE encoded_dict(NewDocument(Other(cls)))]}

InitQuery ==
  /\ _firestore_client \in {None, "db"}
  /\ document_cls \in Classes
  /\ store \in Stores(document_cls)
  /\ self = NewDocument(Plain(document_cls))
  /\ queries = << >>
  /\ streamed = {}
  /\ generator = None
  /\ last = Called("__init__", << >>, None)
  /\ codec = Idle

NextQuery ==
  \/ \E a \in WhereArgs(document_cls) : where(a[1], a[2], a[3])
  \/ \E q \in DOMAIN queries : \E a \in WhereArgs(document_cls) :
       query_where(q, a[1], a[2], a[3])
  \/ \E q \in DOMAIN queries : \E count \in Counts : query_limit(q, count)
  \/ \E q \in DOMAIN queries : query_stream(q)

SpecQuery == InitQuery /\ [][NextQuery]_vars

(***************************************************************************)
(* document.py: Document.stream, a generator function.  The call returns   *)
(* a generator and runs none of the body; the body, _collection() first,   *)
(* runs when the generator is iterated                                     *)
(***************************************************************************)
\* document_cls.stream()
stream ==
  /\ generator' = "suspended"
  /\ last' = Called("stream", << >>, None)
  /\ UNCHANGED <<_firestore_client, document_cls, store, self, queries, streamed, codec>>

\* list(generator), for the generator the last stream() call returned
stream_iterate ==
  /\ generator # None
  /\ generator' = "closed"
  /\ UNCHANGED <<_firestore_client, document_cls, store, self, queries, codec>>
  /\ IF generator = "closed"
     THEN /\ streamed' = {}
          /\ last' = Called("stream.__iter__", << >>, None)
     ELSE IF ~Configured
     THEN /\ streamed' = {}
          /\ last' = Called("stream.__iter__", << >>, FirestoreClientNotConfigured)
     ELSE LET decoded == DecodeAll(document_cls, store, DOMAIN store)
          IN  IF decoded.ok
              THEN /\ streamed' = decoded.v
                   /\ last' = Called("stream.__iter__", << >>, None)
              ELSE /\ streamed' = {}
                   /\ last' = Called("stream.__iter__", << >>, decoded.err)

(***************************************************************************)
(* The client specification: the record operations and the type-level      *)
(* queries, with the client installed and discarded in between             *)
(***************************************************************************)
InitClient ==
  /\ _firestore_client = None
  /\ document_cls \in Classes
  /\ store = << >>
  /\ self = NewDocument(Plain(document_cls))
  /\ queries = << >>
  /\ streamed = {}
  /\ generator = None
  /\ last = Called("__init__", << >>, None)
  /\ codec = Idle

NextClient ==
  \/ initialize_with_firestore_client
  \/ _discard_firestore_client
  \/ Construct(Plain(document_cls))
  \/ \E document_id \in DocumentIds \cup {None} : create(document_id)
  \/ update
  \/ delete
  \/ \E document_id \in DocumentIds : get_document(document_id)
  \/ \E document_id \in DocumentIds : delete_document(document_id)
  \/ stream
  \/ stream_iterate
  \/ \E a \in WhereArgs(document_cls) : where(a[1], a[2], a[3])

SpecClient == InitClient /\ [][NextClient]_vars

(***************************************************************************)
(* The codec specification: one value of one declared type is converted    *)
(* to its stored form and back                                             *)
(***************************************************************************)
\* the longest list converted
MaxLen == 2

ScalarTypes ==
  {TStr, TInt, TBool, TDatetime, TEnum("UserMembershipLevelEnum"), TEnum("PlanEnum")}

DeclaredTypes ==
  ScalarTypes
    \cup {TOptional(T) : T \in ScalarTypes}
    \cup {TList(T) : T \in ScalarTypes}
    \cup {TDict(T) : T \in ScalarTypes}

DictKeys == {"a"}

ScalarValues(T) ==
  CASE T = TStr -> {PyStr("test@test.com"), PyStr("paid")}
    [] T = TInt -> {PyInt(1), PyInt(5)}
    [] T = TBool -> {PyBool(TRUE), PyBool(FALSE)}
    [] T = TDatetime -> {Aware, Naive}
    [] T.k = "Enum" -> {PyEnum(T.cls, m) : m \in DOMAIN EnumValues[T.cls]}

\* the values of a declared type
ValuesOf(T) ==
  CASE T.k = "Union" -> ScalarValues(T.arg) \cup {PyNone}
    [] T.k = "List" ->
         {PyList(l) : l \in UNION {[1..n -> ScalarValues(T.arg)] : n \in 0..MaxLen}}
    [] T.k = "Dict" ->
         {PyDict(<< >>)}
           \cup {PyDict(<<[key |-> key, value |-> v]>>) :
                   key \in DictKeys, v \in ScalarValues(T.arg)}
    [] OTHER -> ScalarValues(T)

\* encoded = convert_value_to_firestore(value)
Encode ==
  /\ codec.pc = "value"
  /\ codec' = [pc |-> "encoded", type |-> codec.type, value |-> codec.value,
                encoded |-> Ok(convert_value_to_firestore(codec.value))]
  /\ UNCHANGED <<_firestore_client, document_cls, store, self, queries, streamed, generator, last>>

\* decoded = convert_value_from_firestore(encoded, field_description)
Decode ==
  /\ codec.pc = "encoded"
  /\ codec.encoded.ok
  /\ codec' = [pc |-> "decoded", type |-> codec.type, value |-> codec.value,
                encoded |-> codec.encoded,
                decoded |-> convert_value_from_firestore(codec.encoded.v, codec.type)]
  /\ UNCHANGED <<_firestore_client, document_cls, store, self, queries, streamed, generator, last>>

InitCodec ==
  /\ _firestore_client = None
  /\ document_cls = "User"
  /\ store = << >>
  /\ self = NewDocument(UserDefaults)
  /\ queries = << >>
  /\ streamed = {}
  /\ generator = None
  /\ last = Called("__init__", << >>, None)
  /\ codec \in UNION {{[pc |-> "value", type |-> T, value |-> v] : v \in ValuesOf(T)} :
                         T \in DeclaredTypes}

NextCodec ==
  \/ Encode
  \/ Decode

SpecCodec == InitCodec /\ [][NextCodec]_vars

(***************************************************************************)
(* The decoding specification: one raw value, as a snapshot may hold it,   *)
(* is converted against one declared field type                            *)
(***************************************************************************)
\* what firestore_document.get(field.name) may return
RawValues ==
  {PyBool(TRUE), PyBool(FALSE), PyInt(1), PyInt(5), PyStr("test@test.com"), PyStr("paid"),
   PyNone, Aware, Naive, PyList(<<PyInt(1)>>),
   PyDict(<<[key |-> "a", value |-> PyStr("paid")]>>)}

\* converted = convert_value_from_firestore(raw, field_description)
ConvertRaw ==
  /\ codec.pc = "raw"
  /\ codec' = [pc |-> "converted", type |-> codec.type, value |-> codec.value,
                decoded |-> convert_value_from_firestore(codec.value, codec.type)]
  /\ UNCHANGED <<_firestore_client, document_cls, store, self, queries, streamed, generator, last>>

InitDecode ==
  /\ _firestore_client = None
  /\ document_cls = "User"
  /\ store = << >>
  /\ self = NewDocument(UserDefaults)
  /\ queries = << >>
  /\ streamed = {}
  /\ generator = None
  /\ last = Called("__init__", << >>, None)
  /\ codec \in {[pc |-> "raw", type |-> T, value |-> raw] :
                   T \in DeclaredTypes, raw \in RawValues}

NextDecode == ConvertRaw

SpecDecode == InitDecode /\ [][NextDecode]_vars

(***************************************************************************)
(* Properties of the record lifecycle (specification Spec)                 *)
(***************************************************************************)
Lifecycle == {"create", "update", "delete"}

\* C1: once an instance's identity is set, no create, update or delete call
\* on it, succeeding or failing, changes it.
C1_IdentityImmutable ==
  [][(last'.op \in Lifecycle /\ id(self) # None) => id(self') = id(self)]_vars

\* an update has succeeded on an identified instance
C1_Witness ==
  /\ last.op = "update"
  /\ last.err = None
  /\ id(self) \in DocumentIds

\* C2: a constructed instance has no identity; create on an identified
\* instance raises DocumentAlreadyCreatedInDatabase, update and delete on an
\* unidentified one raise DocumentNotCreatedInDatabase, and a rejected call
\* writes nothing to the store and leaves the instance as it was.
C2_LifecycleGuards ==
  [][/\ last'.op = "__init__" => id(self') = None
     /\ (last'.op = "create" /\ id(self) # None) =>
          /\ last'.err = DocumentAlreadyCreatedInDatabase
          /\ store' = store
          /\ self' = self
     /\ (last'.op \in {"update", "delete"} /\ id(self) = None) =>
          /\ last'.err = DocumentNotCreatedInDatabase
          /\ store' = store
          /\ self' = self]_vars

\* a create was rejected on an instance whose document is in the store
C2_Witness ==
  /\ last.op = "create"
  /\ last.err = DocumentAlreadyCreatedInDatabase
  /\ id(self) \in DOMAIN store

\* C3: a create or update that raises, whatever it raises, leaves the
\* instance's identity as it was; a failed create leaves it unset.
C3_FailureKeepsIdentity ==
  [][(last'.op \in {"create", "update"} /\ last'.err # None) =>
       /\ id(self') = id(self)
       /\ (last'.op = "create" /\ id(self) = None) => id(self') = None]_vars

\* the store has refused a create at an id that holds a document, and the
\* instance is still without identity
C3_Witness ==
  /\ last.op = "create"
  /\ last.err = Conflict
  /\ id(self) = None

\* C4: after a successful create or update, get_document(self.id) returns a
\* record with that identity and the instance's field values; a create given
\* an explicit id leaves that id in the instance.
C4_GetReturnsSaved ==
  (last.op \in {"create", "update"} /\ last.err = None) =>
    /\ get_document_from(store, document_cls, id(self)).ok
    /\ get_document_from(store, document_cls, id(self)).v = self
    /\ (last.op = "create" /\ last.arg # <<None>>) => last.arg = <<id(self)>>

\* C5: with a client configured, get_document(id) raises DocumentNotFound
\* whenever the collection holds no document at id; delete() and
\* delete_document(id) leave no document at the id, delete_document(id)
\* succeeding whether or not one was there; only a create puts one back.
C5_NotFoundWhenAbsent ==
  [][/\ (last'.op = "get_document" /\ Configured /\ last'.arg[1] \notin DOMAIN store)
          => last'.err = DocumentNotFound
     /\ (last'.op = "delete_document" /\ Configured)
          => (last'.err = None /\ last'.arg[1] \notin DOMAIN store')
     /\ (last'.op = "delete" /\ last'.err = None)
          => id(self) \notin DOMAIN store'
     /\ \A d \in DocumentIds :
          (d \notin DOMAIN store /\ d \in DOMAIN store')
             => (last'.op = "create" /\ last'.err = None)]_vars

\* get_document has raised DocumentNotFound for the id of an instance whose
\* document was deleted
C5_Witness ==
  /\ last.op = "get_document"
  /\ last.err = DocumentNotFound
  /\ last.arg = <<id(self)>>

(***************************************************************************)
(* Properties of the codec (specification SpecCodec)                       *)
(***************************************************************************)
\* C6: every value of every declared type, encoded and then decoded against
\* the declared type, comes back equal to itself.
C6_RoundTrip ==
  codec.pc = "decoded" => (codec.decoded.ok /\ codec.decoded.v = codec.value)

IsNaive(value) == value.t = "datetime" /\ value.s = ""

\* does the value hold a datetime without tzinfo, at the top or nested?
HoldsNaive(value) ==
  \/ IsNaive(value)
  \/ \E i \in DOMAIN value.items : IsNaive(value.items[i])
  \/ \E i \in DOMAIN value.entries : IsNaive(value.entries[i].value)

\* C7: encoding a value that holds a timezone-naive datetime raises; encoding
\* a timezone-aware datetime returns it unchanged.
C7_NaiveTimestampRejected ==
  codec.pc \in {"encoded", "decoded"} =>
    /\ HoldsNaive(codec.value) => ~codec.encoded.ok
    /\ (codec.value.t = "datetime" /\ ~IsNaive(codec.value)) =>
         (codec.encoded.ok /\ codec.encoded.v = codec.value)

(***************************************************************************)
(* Properties of the queries (specification SpecQuery)                     *)
(***************************************************************************)
WhereCalls == {"where", "_DocumentQuery.where"}

\* the declared type with Optional taken off
Unwrapped(type) == IF type.k = "Union" THEN type.arg ELSE type

\* C8: every where, on the record type or chained on a query, is checked
\* against the declared fields: an undeclared field raises and so does a
\* value that is not of the field's type (None for a field that is not
\* Optional among them), None is accepted for every Optional field, and a
\* where that raises builds no query.
C8_WhereValidated ==
  [][last'.op \in WhereCalls =>
       LET field_path == last'.arg[1]
           value == last'.arg[3]
           declared == field_path \in FieldNames(document_cls)
           type == ClassFields[document_cls][field_path]
       IN  /\ ~declared => last'.err = FieldDoesNotExist
           /\ (declared /\ value # PyNone /\ TypeOf(value) # Unwrapped(type))
                => last'.err = ValueHasType
           /\ (declared /\ value = PyNone /\ type.k # "Union")
                => last'.err = ValueHasType
           /\ (declared /\ value = PyNone /\ type.k = "Union" /\ Configured)
                => last'.err = None
           /\ last'.err # None => queries' = queries]_vars

\* C9: every value attached to a store query has been through
\* convert_value_to_firestore: no filter of any query holds an enumeration
\* member, only its scalar.
C9_FiltersEncoded ==
  \A q \in DOMAIN queries :
    \A i \in DOMAIN queries[q]._firestore_query.filters :
      LET value == queries[q]._firestore_query.filters[i][3]
      IN  /\ value.t # "Enum"
          /\ value = convert_value_to_firestore(value)

QueryCalls ==
  {"where", "_DocumentQuery.where", "_DocumentQuery.limit", "_DocumentQuery.stream"}

\* C10: where and limit on a query return a new query and leave every
\* existing query, the receiver among them, with the filters and the limit
\* it had, so that what it streams stays what it was.
C10_QueriesImmutable ==
  [][last'.op \in QueryCalls =>
       /\ \A q \in DOMAIN queries :
            /\ q \in DOMAIN queries'
            /\ queries'[q] = queries[q]
            /\ firestore_stream(queries'[q]._firestore_query, store')
                 = firestore_stream(queries[q]._firestore_query, store)
       /\ (last'.op \in {"_DocumentQuery.where", "_DocumentQuery.limit"}
             /\ last'.err = None)
            => Len(queries') = Len(queries) + 1]_vars

\* two queries have been derived from the same query, one by where and one
\* by limit, and the query they come from has neither the filter nor the limit
C10_Witness ==
  /\ Len(queries) >= 3
  /\ last.op \in {"_DocumentQuery.where", "_DocumentQuery.limit"}
  /\ \E q \in DOMAIN queries, byWhere \in DOMAIN queries, byLimit \in DOMAIN queries :
       /\ queries[q]._firestore_query.limit = PyNone
       /\ Len(queries[byWhere]._firestore_query.filters)
            = Len(queries[q]._firestore_query.filters) + 1
       /\ SubSeq(queries[byWhere]._firestore_query.filters, 1,
                 Len(queries[q]._firestore_query.filters))
            = queries[q]._firestore_query.filters
       /\ queries[byLimit]._firestore_query.filters = queries[q]._firestore_query.filters
       /\ queries[byLimit]._firestore_query.limit # PyNone

\* the documents that satisfy every predicate of a query, each predicate
\* taken as the application gave it: the stored field against the value's
\* stored form
Satisfying(firestore_query, st) ==
  {d \in DOMAIN st :
     \A i \in DOMAIN firestore_query.filters :
       LET predicate == firestore_query.filters[i]
       IN  /\ predicate[1] \in DOMAIN st[d]
           /\ Compare(predicate[2], st[d][predicate[1]],
                      convert_value_to_firestore(predicate[3]))}

\* C11: streaming a query yields only documents of the collection that
\* satisfy all its predicates, each decoded with the stored document's id;
\* with limit(n) exactly min(n, number of satisfying documents) of them, and
\* without a limit every one of them.
C11_StreamYieldsMatching ==
  last.op = "_DocumentQuery.stream" =>
    LET query == queries[last.arg[1]]._firestore_query
        satisfying == Satisfying(query, store)
        yielded == {id(document) : document \in streamed}
    IN  /\ last.err = None
        /\ yielded \subseteq satisfying
        /\ Cardinality(streamed) = Cardinality(yielded)
        /\ \A document \in streamed :
             LET stored == _from_firestore_document(document_cls, id(document),
                                                    store[id(document)])
             IN  stored.ok /\ stored.v = document
        /\ IF query.limit = PyNone
           THEN yielded = satisfying
           ELSE Cardinality(yielded) =
                  IF Cardinality(satisfying) < query.limit.n
                  THEN Cardinality(satisfying) ELSE query.limit.n

\* the step is a record operation that is valid but for the client: create
\* on a fresh instance, update and delete on an identified one, get_document,
\* delete_document, where with a declared field and a well-typed value
OtherwiseValid ==
  \/ last'.op = "create" /\ id(self) = None
  \/ last'.op \in {"update", "delete"} /\ id(self) # None
  \/ last'.op \in {"get_document", "delete_document"}
  \/ /\ last'.op = "where"
     /\ where_final_value(document_cls, last'.arg[1], last'.arg[3]).ok

NotConfiguredAtTheCall ==
  /\ last'.err = FirestoreClientNotConfigured
  /\ id(self') = id(self)

\* C12, as stated: while no client is installed, every otherwise valid record
\* operation, the stream() call among them, fails with
\* FirestoreClientNotConfigured at the call and leaves the instance's
\* identity unchanged.
C12_NotConfiguredAtEveryCall ==
  [][(_firestore_client = None /\ (OtherwiseValid \/ last'.op = "stream"))
       => NotConfiguredAtTheCall]_vars

\* C12, amended: while no client is installed, create on a fresh instance,
\* update and delete on an identified instance, get_document, delete_document
\* and where with a declared field and a well-typed value fail with
\* FirestoreClientNotConfigured at the call and leave the instance's identity
\* unchanged; the stream() call returns a generator without failing, and the
\* failure comes when that generator is first iterated.
C12_NotConfigured ==
  [][_firestore_client = None =>
       /\ OtherwiseValid => NotConfiguredAtTheCall
       /\ last'.op = "stream" =>
            /\ last'.err = None
            /\ generator' = "suspended"
            /\ UNCHANGED <<store, self, queries, streamed>>
       /\ (last'.op = "stream.__iter__" /\ generator = "suspended") =>
            /\ NotConfiguredAtTheCall
            /\ streamed' = {}]_vars

\* an identified instance, so a client was installed and then discarded, and
\* the iteration of a generator obtained without a client has just failed
C12_Witness ==
  /\ _firestore_client = None
  /\ id(self) # None
  /\ store # << >>
  /\ last.op = "stream.__iter__"
  /\ last.err = FirestoreClientNotConfigured

(***************************************************************************)
(* Properties of decoding (specification SpecDecode)                       *)
(***************************************************************************)
IsTypeError(outcome) ==
  /\ ~outcome.ok
  /\ outcome.err \in {ReceivedAValue, "TypeError: issubclass() arg 1 must be a class"}

Unchanged(outcome, raw) == outcome.ok /\ outcome.v = raw

\* the outcome is the member of the enumeration whose value is raw, if the
\* enumeration has one
MemberOf(outcome, cls, raw) ==
  \A m \in DOMAIN EnumValues[cls] :
    EnumValues[cls][m] = raw => (outcome.ok /\ outcome.v = PyEnum(cls, m))

\* C13: a boolean raw value comes back unchanged for a boolean or
\* optional-boolean field and raises TypeError for any other; an integer comes
\* back unchanged for an integer or optional-integer field, as the member with
\* that value for an enumeration or optional-enumeration field, and raises
\* TypeError for any other; a string comes back unchanged for a string or
\* optional-string field, as the member with that value for an enumeration
\* field, and raises TypeError for any other; any other raw value comes back
\* unchanged whatever the field.
C13_DecodeDispatch ==
  codec.pc = "converted" =>
    LET raw == codec.value
        type == codec.type
        outcome == codec.decoded
    IN  CASE raw.t = "bool" ->
               IF Unwrapped(type) = TBool THEN Unchanged(outcome, raw)
               ELSE IsTypeError(outcome)
          [] raw.t = "int" ->
               IF Unwrapped(type) = TInt THEN Unchanged(outcome, raw)
               ELSE IF Unwrapped(type).k = "Enum"
               THEN MemberOf(outcome, Unwrapped(type).cls, raw)
               ELSE IsTypeError(outcome)
          [] raw.t = "str" ->
               IF Unwrapped(type) = TStr THEN Unchanged(outcome, raw)
               ELSE IF type.k = "Enum" THEN MemberOf(outcome, type.cls, raw)
               ELSE IsTypeError(outcome)
          [] OTHER -> Unchanged(outcome, raw)

\* the integer 1 read for an Optional[UserMembershipLevelEnum] field has come
\* back as the member NONE
C13_Witness ==
  /\ codec.pc = "converted"
  /\ codec.value = PyInt(1)
  /\ codec.type = TOptional(TEnum("UserMembershipLevelEnum"))
  /\ codec.decoded.ok
  /\ codec.decoded.v = PyEnum("UserMembershipLevelEnum", "NONE")

====
